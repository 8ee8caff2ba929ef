---------------------------- MODULE ApiKeySearch ----------------------------
(***************************************************************************)
(* IBMAccelerator::searchAPIKey and findApiKeyInFile: where initialize()   *)
(* gets the key, the URL and the hub, group and project from.  A file is a *)
(* sequence of lines; of a line the code looks at which words occur        *)
(* anywhere in it, and at its pieces between colons.                       *)
(*                                                                         *)
(* A value is the sequence of the pieces it is put together of, <<>> the   *)
(* empty string.  Pieces are without the blanks around them, so "" is a    *)
(* piece of blanks.                                                        *)
(***************************************************************************)
EXTENDS Naturals, Sequences

CONSTANTS
    Texts,     \* pieces of lines and values of options
    Lines,     \* lines of files, see Line
    Garbage,   \* what a read beyond the end of a vector may yield
    Unset,     \* no such environment variable, file or option
    NoHome     \* HOME itself is unset

Settings == {"key", "url", "hub", "group", "project"}
Line == [found : SUBSET Settings, pieces : Seq(Texts)]

ASSUME LinesAssumption ==
    /\ Lines \subseteq Line
    /\ \A line \in Lines : line.pieces # <<>>
    /\ "" \in Texts /\ Unset \notin Texts
    /\ Garbage \notin Texts
    /\ NoHome # Unset

VARIABLES
    home,         \* NoHome, Unset or the file $HOME/.ibm_config
    config,       \* the file $IBM_CONFIG names; <<>> if there is none there
    options,      \* the options ibm-api-<setting>
    stage,        \* where initialize() stands
    lines,        \* lines to come
    credentials   \* apiKey and the members url, hub, group and project

sources == <<home, config, options>>
searchVars == <<sources, stage, lines, credentials>>

NoCredentials == [setting \in Settings |-> <<>>]

-----------------------------------------------------------------------------
(* xacc::error ends the process, an exception or a fault the program *)
Ended(how) == stage' = how /\ UNCHANGED <<sources, lines, credentials>>

(* getenv("HOME") is not asked whether it found one *)
SearchWithoutHome ==
    /\ stage = "search" /\ home = NoHome
    /\ Ended("crashed")

(* The file in $HOME, or else the one $IBM_CONFIG names *)
FileOf == IF home # Unset THEN home ELSE config

SearchFile ==
    /\ stage = "search" /\ home # NoHome /\ FileOf # Unset
    /\ stage' = "read" /\ lines' = FileOf
    /\ UNCHANGED <<sources, credentials>>

(* Without a file, the options *)
SearchOptions ==
    /\ stage = "search" /\ home # NoHome /\ FileOf = Unset
    /\ IF options["key"] = Unset THEN Ended("exited")
       ELSE /\ stage' = "check"
            /\ credentials' = [setting \in Settings |->
                IF options[setting] \in {Unset, ""} THEN <<>> ELSE <<options[setting]>>]
            /\ UNCHANGED <<sources, lines>>

-----------------------------------------------------------------------------
(* findApiKeyInFile, one turn of its loop: the first word that is found *)
(* anywhere in the line decides what the line is                        *)
Setting(line) ==
    CASE "key" \in line.found -> "key"
      [] "url" \in line.found -> "url"
      [] "hub" \in line.found -> "hub"
      [] "group" \in line.found -> "group"
      [] OTHER -> "project"

\* Variant: every setting is one piece.
OnePiece(setting) == 1

(* A URL has a colon of its own; a second one, of a port, is not looked for *)
Pieces(setting) == IF setting = "url" THEN 2 ELSE 1

Short(line) == Len(line.pieces) < 1 + Pieces(Setting(line))
Trimmed(value) == IF value = <<"">> THEN <<>> ELSE value
Value(line) == Trimmed(SubSeq(line.pieces, 2, 1 + Pieces(Setting(line))))

Assigned(line, value) ==
    /\ credentials' = [credentials EXCEPT ![Setting(line)] = value]
    /\ lines' = Tail(lines)
    /\ UNCHANGED <<sources, stage>>

ReadLine ==
    /\ stage = "read" /\ lines # <<>>
    /\ LET line == Head(lines) IN
        \/ /\ line.found = {}
           /\ lines' = Tail(lines) /\ UNCHANGED <<sources, stage, credentials>>
        \/ line.found # {} /\ ~ Short(line) /\ Assigned(line, Value(line))

(* split[1] or split[2] of a line that has not so many *)
ReadBeyond ==
    /\ stage = "read" /\ lines # <<>>
    /\ Head(lines).found # {} /\ Short(Head(lines))
    /\ Ended("crashed") \/ Assigned(Head(lines), <<Garbage>>)

EndOfFile ==
    /\ stage = "read" /\ lines = <<>>
    /\ stage' = "check" /\ UNCHANGED <<sources, lines, credentials>>

-----------------------------------------------------------------------------
KeyFound ==
    /\ stage = "check" /\ credentials["key"] # <<>>
    /\ stage' = "login" /\ UNCHANGED <<sources, lines, credentials>>

\* Variant: an empty key of the file is made up for by the option.
KeyOfOption ==
    /\ stage = "check" /\ credentials["key"] = <<>>
    /\ IF options["key"] \in {Unset, ""} THEN Ended("exited")
       ELSE /\ credentials' = [credentials EXCEPT !["key"] = <<options["key"]>>]
            /\ stage' = "login" /\ UNCHANGED <<sources, lines>>

KeyEmpty ==
    /\ stage = "check" /\ credentials["key"] = <<>>
    /\ Ended("exited")

(* Whatever the user has set up *)
File == Seq(Lines)
SourcesTypeOK ==
    /\ home \in {NoHome, Unset} \cup File
    /\ config \in {Unset} \cup File
    /\ options \in [Settings -> {Unset} \cup Texts]

SearchInit ==
    /\ SourcesTypeOK
    /\ lines = <<>>
    /\ credentials = NoCredentials

searchAPIKey == SearchWithoutHome \/ SearchFile \/ SearchOptions \/ ReadLine
                    \/ ReadBeyond \/ EndOfFile \/ KeyFound \/ KeyEmpty

-----------------------------------------------------------------------------
SearchTypeOK ==
    /\ SourcesTypeOK
    /\ lines \in File
    /\ credentials \in [Settings -> Seq(Texts \cup {Garbage})]

(* What a file, the options, and whichever of them is the source can say *)
Mentioned(file) == UNION {{file[i].pieces[j] : j \in DOMAIN file[i].pieces} : i \in DOMAIN file}
Optional == {options[setting] : setting \in Settings} \ {Unset}
Said == CASE home = NoHome -> {}
          [] home # NoHome /\ FileOf # Unset -> Mentioned(FileOf) \cup {Garbage}
          [] home # NoHome /\ FileOf = Unset -> Optional

(* One source gives the key, the hub, the group and the project: they are     *)
(* never put together of a file and of options, or of two files, so that a    *)
(* key meets the network it is for.  (The URL is left out: an option is said  *)
(* to override it, see UrlOptionOverrides.  searchAPIKey, :698.)              *)
CredentialsOfOneSource ==
    \A setting \in Settings \ {"url"} : \A i \in DOMAIN credentials[setting] :
        credentials[setting][i] \in Said

(* A setting has the value of the last line labelled with it, if the word occurs *)
(* on such lines only, alone, and the value is as many pieces as are read.       *)
(* Other lines may say what they like.  (findApiKeyInFile, :744.)                *)
Clean(file, setting) ==
    \A i \in DOMAIN file :
        setting \in file[i].found =>
            /\ file[i].found = {setting} /\ file[i].pieces[1] = setting
            /\ Len(file[i].pieces) = IF setting = "url" THEN 3 ELSE 2
Labelled(file, setting) == {i \in DOMAIN file : setting \in file[i].found}

SettingsFromOwnLines ==
    stage \in {"check", "login"} /\ home # NoHome /\ FileOf # Unset =>
        \A setting \in Settings :
            Clean(FileOf, setting) =>
                credentials[setting] =
                    IF Labelled(FileOf, setting) = {} THEN <<>>
                    ELSE LET last == CHOOSE i \in Labelled(FileOf, setting) :
                                        \A j \in Labelled(FileOf, setting) : j <= i
                         IN  Trimmed(Tail(FileOf[last].pieces))

-----------------------------------------------------------------------------
(* What the option's text says, IBMAccelerator.hpp:144-146: "Specify the IBM  *)
(* Quantum Experience URL, overrides $HOME/.ibm_config".  The code does not   *)
(* look at the options when there is a file.  (searchAPIKey, :706.)           *)
UrlOptionOverrides ==
    stage = "login" /\ options["url"] \notin {Unset, ""} =>
        credentials["url"] = <<options["url"]>>
=============================================================================
