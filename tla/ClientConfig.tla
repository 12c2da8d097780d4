----------------------------- MODULE ClientConfig -----------------------------
(***************************************************************************)
(* The settings of the C++ meter over many runs of the program: readConfig,*)
(* the class Arguments, and writeConfig (client/src/MeterMain.cpp,         *)
(* Arguments.cpp, ValidityCheck.cpp).                                      *)
(*                                                                         *)
(* A run loads settings.config, processes its arguments, overwrites what   *)
(* it has loaded with the arguments or their defaults, the password        *)
(* excepted, saves the result when it is asked to, and goes on with it.    *)
(* It may be killed at any time.                                           *)
(***************************************************************************)
EXTENDS PasswordCrypt

CONSTANTS
  Texts,         \* values of the settings that are text
  Numbers,       \* values of secondsToDelay and runtime
  Passwords,     \* what may be typed for -p
  Defaults,      \* setDefaults: the value of every setting
  CommandLines   \* the sequences of arguments the program may be started with

\* In the order of writeConfig.
Order == <<"aeAppId", "contName", "secondsToDelay", "hostName", "username", "password",
           "location", "aeName", "cseRootAddr", "runtime">>
Keys       == {Order[n] : n \in 1..10}
NumberKeys == {"secondsToDelay", "runtime"}
TextKeys   == Keys \ (NumberKeys \cup {"password"})

\* Texts that no check accepts, in place of a text and of a number.
BadText   == "bad"
NotDigits == -1

Unset == [key \in Keys |-> IF key \in NumberKeys THEN 0
                           ELSE IF key = "password" THEN <<>> ELSE ""]

\* A value of a setting, as given by an argument or a default.
Value(key, value) ==
  \/ key \in TextKeys   /\ value \in Texts
  \/ key \in NumberKeys /\ value \in Numbers
  \/ key = "password"   /\ value \in Seq(Typed)

\* What the global variables may hold: values, or what they start with.
Settings(settings) ==
  /\ settings = [key \in Keys |-> settings[key]]
  /\ \A key \in Keys : settings[key] = Unset[key] \/ Value(key, settings[key])

\* An argument: a flag with the key it sets and the value that follows it, or
\* -s, or a flag there is not.
Argument(key, value) == [key |-> key, value |-> value]
Save    == Argument("save", 0)
Unknown == Argument("unknown", 0)
AnArgument(a) ==
  /\ a = Argument(a.key, a.value)
  /\ \/ a.key \in TextKeys   /\ a.value \in Texts \cup {BadText}
     \/ a.key \in NumberKeys /\ a.value \in Numbers \cup {NotDigits}
     \/ a.key = "password"   /\ a.value \in Passwords
     \/ a.key \in {"save", "unknown"} /\ a.value = 0

ASSUME ConstantsAssumption ==
  /\ BadText \notin Texts /\ "" \notin Texts
  /\ Numbers \subseteq Nat
  /\ Passwords \subseteq Seq(Typed)
  /\ Settings(Defaults) /\ \A key \in Keys : Value(key, Defaults[key])
  /\ \A line \in CommandLines :
       line \in Seq({line[n] : n \in DOMAIN line}) /\ \A n \in DOMAIN line : AnArgument(line[n])

VARIABLES
  pc,          \* "stopped", or what the run is going to do
  conf,        \* the global variables
  file,        \* the lines of settings.config, none when there is no file
  arguments,   \* of the run
  saved        \* the settings that were last written

vars == <<pc, conf, file, arguments, saved>>

-----------------------------------------------------------------------------
(***************************************************************************)
(* readConfig and writeConfig.                                             *)
(***************************************************************************)

\* The checks of an argument or of a line.  The shape of an address, a name or
\* a path is all in whether a text is the bad one.
Valid(key, value) ==
  /\ key = "password"   => isValidPass(value)
  /\ key \in NumberKeys => value # NotDigits
  /\ key \in TextKeys   => value # BadText
  /\ key # "unknown"

\* secondsToDelay is a double, which is printed with six digits: from a million
\* on with an exponent.
Million == 1000000

Printed(key, value) ==
  IF key = "password" THEN string_to_crypt(value)
  ELSE IF key = "secondsToDelay" /\ value >= Million THEN NotDigits
  ELSE value

\* Mutated: the last two are forgotten.
Lines_Eight(settings) ==
  [n \in 1..8 |-> Argument(Order[n], Printed(Order[n], settings[Order[n]]))]

Lines(settings) ==
  [n \in 1..10 |-> Argument(Order[n], Printed(Order[n], settings[Order[n]]))]

\* A line is reached when all before it and itself are valid: the first that
\* is not ends readConfig.
Reached(lines, n) == \A m \in 1..n : Valid(lines[m].key, lines[m].value)

Parsed(key, value) == IF key = "password" THEN crypt_to_string(value) ELSE value

Loaded(lines) ==
  [key \in Keys |->
     LET places == {n \in DOMAIN lines : lines[n].key = key /\ Reached(lines, n)} IN
       IF places = {} THEN Unset[key]
       ELSE Parsed(key, lines[CHOOSE n \in places : TRUE].value)]

-----------------------------------------------------------------------------
(***************************************************************************)
(* Arguments::parseFlags.                                                  *)
(***************************************************************************)

\* Parsing ends at the first argument that is not valid; those before it have
\* been processed.
Processed(n) == \A m \in 1..n : Valid(arguments[m].key, arguments[m].value)

\* A password that is not valid ends the parsing, and not the program.
Refused ==
  \E n \in DOMAIN arguments :
    /\ Processed(n - 1) /\ ~ Processed(n)
    /\ arguments[n].key # "password"

\* The last of the arguments that set a key, 0 if none does.  What is typed for
\* a password is kept before it is checked.
Setting(key) ==
  LET places == {n \in DOMAIN arguments :
                   /\ arguments[n].key = key
                   /\ Processed(IF key = "password" THEN n - 1 ELSE n)}
  IN  IF places = {} THEN 0 ELSE CHOOSE n \in places : \A m \in places : m <= n

Argued(key) == IF Setting(key) = 0 THEN Defaults[key] ELSE arguments[Setting(key)].value

SaveConfig == \E n \in DOMAIN arguments : Processed(n) /\ arguments[n].key = "save"

\* passFlag is set by a valid -p, and by nothing else: garbage is what it holds
\* before.
PassFlag(garbage) ==
  garbage \/ \E n \in DOMAIN arguments : Processed(n) /\ arguments[n].key = "password"

\* The password of the run: that of getPassword, unless it is empty.
Password(garbage) ==
  IF PassFlag(garbage) /\ Argued("password") # <<>> THEN Argued("password")
                                                    ELSE conf["password"]

-----------------------------------------------------------------------------
Init ==
  /\ pc = "stopped" /\ conf = Unset /\ arguments = <<>>
  /\ file = <<>> /\ saved = Unset

\* The program starts and reads its configuration.
ReadConfig ==
  /\ pc = "stopped" /\ pc' = "arguments"
  /\ arguments' \in CommandLines
  /\ conf' = Loaded(file)
  /\ UNCHANGED <<file, saved>>

\* It processes its arguments, and exits if one is refused.
ProcessArguments ==
  /\ pc = "arguments" /\ ~ Refused
  /\ \E garbage \in BOOLEAN :
       conf' = [key \in Keys |-> IF key = "password" THEN Password(garbage)
                                                     ELSE Argued(key)]
  /\ pc' = IF SaveConfig THEN "save" ELSE "running"
  /\ UNCHANGED <<file, arguments, saved>>

\* writeConfig opens the file, which empties it, or cannot.
OpenConfig ==
  /\ pc = "save"
  /\ \/ file' = <<>> /\ pc' = "write"
     \/ UNCHANGED file /\ pc' = "running"
  /\ UNCHANGED <<conf, arguments, saved>>

\* The ten lines are less than the stream's buffer and get to the file at once,
\* when it is closed.
WriteConfig ==
  /\ pc = "write" /\ pc' = "running"
  /\ file' = Lines(conf) /\ saved' = conf
  /\ UNCHANGED <<conf, arguments>>

\* The program exits as an argument was refused, ends or is killed.
Stop ==
  /\ pc # "stopped" /\ pc' = "stopped"
  /\ conf' = Unset /\ arguments' = <<>>
  /\ UNCHANGED <<file, saved>>

Next == ReadConfig \/ ProcessArguments \/ OpenConfig \/ WriteConfig \/ Stop

Spec == Init /\ [][Next]_vars

-----------------------------------------------------------------------------
(***************************************************************************)
(* Properties.                                                             *)
(***************************************************************************)
TypeOK ==
  /\ pc \in {"stopped", "arguments", "save", "write", "running"}
  /\ Settings(conf) /\ Settings(saved)
  /\ file \in {<<>>, Lines(saved)}
  /\ arguments \in CommandLines \cup {<<>>}

\* A run starts to process its arguments with what it has loaded.
ConfIsLoaded == pc = "arguments" => conf = Loaded(file)

\* readConfig reads back what writeConfig has written, all of it, as long as
\* the password has at most 18 characters and the delay is less than a million:
\* longer passwords may be moved out of the printable characters, longer delays
\* are printed with an exponent, and readConfig stops at either.
Simple(settings) ==
  /\ Len(settings["password"]) \in 1..18
  /\ settings["secondsToDelay"] < Million
SavedIsReadBack ==
  (pc = "arguments" /\ file # <<>> /\ Simple(saved)) => conf = saved

\* Whatever was saved, the password of a run is one that was typed for it or
\* saved before, the default or none: never one that came out of the encoding
\* as something else (MeterMain.cpp:373-381, 99-100).
PasswordIsKnown ==
  conf["password"] \in {<<>>, Defaults["password"], saved["password"]}
                         \cup {arguments[n].value : n \in {m \in DOMAIN arguments :
                                                   arguments[m].key = "password"}}

\* crypt_to_string copies the text to an array of 64 characters without looking
\* at its length (MeterMain.cpp:493-500).  Nothing limits a password, but a text
\* that is too long is never decoded: isValidPass refuses it before.
BufferFits ==
  \A n \in DOMAIN file :
    (file[n].key = "password" /\ Reached(file, n)) => Len(file[n].value) < BufferSize

\* "When running the client, it will automatically load the values stored in
\* the settings.config file" (README.txt:26): a run without arguments goes on
\* with the settings that were saved, when readConfig has read all of them back
\* (SavedIsReadBack).  Of the password the code takes care (main).
LoadedIsUsed ==
  [][(ProcessArguments /\ arguments = <<>> /\ file # <<>> /\ Simple(saved))
       => \A key \in Keys \ {"password"} : conf'[key] = conf[key]]_vars

=============================================================================
