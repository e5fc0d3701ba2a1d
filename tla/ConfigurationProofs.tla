-------------------------- MODULE ConfigurationProofs --------------------------
(* That every option of FlagdProviderConfig holds the last valid value it was *)
(* given, that fatal status codes are codes and that a connection follows the *)
(* documented priorities, whatever the environment and the setters called.    *)
EXTENDS Configuration, Induction

\* What the default of an option is where the proof depends on it.
LEMMA DefaultValues ==
    /\ Defaults["tls"] = FALSE
    /\ Defaults["fatal_status_codes"] = <<>>
    /\ Defaults["channel_credentials"] = Unset
    /\ \A option \in Names : Defaults[option] = Unset
BY DEF Defaults, Names

\* The constructor leaves in an option what its environment says of it, and the
\* default where it says nothing that can be used.
LEMMA ConstructorReads ==
    ASSUME NEW option \in Options, NEW env
    PROVE  FromEnvironment(option, env) =
               IF Supplied(option, env) # <<>> THEN Supplied(option, env)[1] ELSE Defaults[option]
<1> DEFINE text == env[option]
<1> USE DefaultValues
<1>1. CASE option \in Numerals
  <2>1. option \notin Names \cup {"host", "tls", "channel_credentials", "fatal_status_codes"}
    BY <1>1 DEF Numerals, Durations, Allowances, Names
  <2>2. FromEnvironment(option, env) =
            AfterSetter(option, Defaults[option], GetEnvInt(text, Defaults[option]))
    BY <1>1, <2>1 DEF FromEnvironment
  <2>3. Supplied(option, env) =
            IF text # Unset /\ IsStoi(text) /\ Takes(option, text.number)
            THEN <<text.number>> ELSE <<>>
    BY <1>1, <2>1 DEF Supplied
  <2>. QED BY <2>1, <2>2, <2>3 DEF AfterSetter, GetEnvInt, Held
<1>2. CASE option \in Names
  <2>1. option \notin Numerals \cup {"host", "tls", "channel_credentials", "fatal_status_codes"}
    BY <1>2 DEF Numerals, Durations, Allowances, Names
  <2>2. FromEnvironment(option, env) = IF text \in {Unset, Empty} THEN Unset ELSE text
    BY <1>2, <2>1 DEF FromEnvironment
  <2>3. Supplied(option, env) = IF text \in {Unset, Empty} THEN <<>> ELSE <<text>>
    BY <1>2, <2>1 DEF Supplied
  <2>. QED BY <1>2, <2>2, <2>3
<1>3. CASE option \in {"host", "tls", "channel_credentials", "fatal_status_codes"}
  <2>1. option \notin Numerals \cup Names
    BY <1>3 DEF Numerals, Durations, Allowances, Names
  <2>2. CASE option = "host"
    BY <2>1, <2>2 DEF FromEnvironment, Supplied
  <2>3. CASE option = "tls"
    BY <2>1, <2>3 DEF FromEnvironment, Supplied, GetEnvBool
  <2>4. CASE option = "channel_credentials"
    BY <2>1, <2>4 DEF FromEnvironment, Supplied
  <2>5. CASE option = "fatal_status_codes"
    BY <2>1, <2>5 DEF FromEnvironment, Supplied, Held
  <2>. QED BY <1>3, <2>2, <2>3, <2>4, <2>5
<1>. QED BY <1>1, <1>2, <1>3 DEF Options

-----------------------------------------------------------------------------
\* A configuration has all options; before there is one, nothing is set.
Shaped ==
    /\ settings \in Seq(Settings)
    /\ IF config = Nothing THEN settings = <<>>
       ELSE config = [option \in Options |-> config[option]] /\ environment \in Environments

\* The settings that were taken have a last one.
LatestIsTaken ==
    \A option \in Options : Taken(option) # {} => Max(Taken(option)) \in Taken(option)

ConfigInv == Shaped /\ LatestIsTaken /\ LastValidWins

LEMMA StartsValid == ConfigInit => ConfigInv
BY DEF ConfigInit, ConfigInv, Shaped, LatestIsTaken, Taken, LastValidWins

\* A configuration that was just made.
LEMMA ConstructKeeps ==
    ASSUME ConfigInv, NEW env \in Environments, Construct(env)
    PROVE  ConfigInv'
<1>1. settings' = <<>> /\ environment' = env
  BY DEF ConfigInv, Shaped, Construct
<1>2. config' = [option \in Options |-> FromEnvironment(option, env)]
  BY DEF Construct
<1>3. Shaped'
  BY <1>1, <1>2 DEF Shaped
<1>4. \A option \in Options : Taken(option)' = {}
  BY <1>1 DEF Taken
<1>5. \A option \in Options :
          FromEnvironment(option, env) =
              IF Supplied(option, env) # <<>> THEN Supplied(option, env)[1] ELSE Defaults[option]
  BY ConstructorReads
<1>. QED BY <1>1, <1>2, <1>3, <1>4, <1>5 DEF ConfigInv, LatestIsTaken, LastValidWins

\* A setter's value goes to its option if the setter takes it, and then it is
\* the last one taken; no other option is touched.
LEMMA SetOptionKeeps ==
    ASSUME ConfigInv, NEW setting \in Settings, SetOption(setting)
    PROVE  ConfigInv'
<1> DEFINE option == setting.option
           n == Len(settings) + 1
<1>1. /\ option \in Options
      /\ settings \in Seq(Settings) /\ config = [o \in Options |-> config[o]]
      /\ config # Nothing /\ UNCHANGED environment /\ environment \in Environments
      /\ settings' = Append(settings, setting)
      /\ config' = [config EXCEPT ![option] = AfterSetter(option, @, setting.argument)]
  BY SettingAssumption DEF ConfigInv, Shaped, SetOption
<1>2. /\ settings' \in Seq(Settings) /\ n \in Nat /\ DOMAIN settings = 1 .. n - 1
      /\ DOMAIN settings' = DOMAIN settings \cup {n} /\ n \notin DOMAIN settings
      /\ settings'[n] = setting /\ \A i \in DOMAIN settings : settings'[i] = settings[i]
  BY <1>1
<1>3. /\ config' = [o \in Options |-> config'[o]]
      /\ config'[option] = AfterSetter(option, config[option], setting.argument)
      /\ \A o \in Options \ {option} : config'[o] = config[o]
  <2> HIDE DEF option
  <2>. QED BY <1>1
<1>4. Shaped' /\ config' # Nothing
  <2>1. DOMAIN config' = Options /\ DOMAIN Nothing = {"kind"}
    BY <1>3 DEF Nothing
  <2>2. "kind" \notin Options
    BY DEF Options, Numerals, Durations, Allowances, Names
  <2>3. config' # Nothing
    BY <2>1, <2>2, <1>1
  <2>. QED BY <1>1, <1>2, <1>3, <2>3 DEF Shaped
<1>5. \A o : o # option \/ ~Takes(option, setting.argument) => Taken(o)' = Taken(o)
  BY <1>2 DEF Taken
<1>6. Takes(option, setting.argument) => Max(Taken(option)') = n /\ n \in Taken(option)'
  <2>1. SUFFICES ASSUME Takes(option, setting.argument)
                 PROVE  Max(Taken(option)') = n /\ n \in Taken(option)'
    OBVIOUS
  <2>2. Taken(option)' \subseteq 1 .. n /\ n \in Taken(option)'
    BY <1>2, <2>1 DEF Taken
  <2>3. Taken(option)' \subseteq Int /\ \A i \in Taken(option)' : n >= i
    BY <1>2, <2>2
  <2>. QED BY <2>2, <2>3, MaxIs
<1>7. SUFFICES ASSUME NEW o \in Options
               PROVE  /\ Taken(o)' # {} => Max(Taken(o)') \in Taken(o)'
                      /\ config'[o] =
                        IF Taken(o)' # {} THEN Held(o, settings'[Max(Taken(o)')].argument)
                        ELSE IF Supplied(o, environment) # <<>> THEN Supplied(o, environment)[1]
                        ELSE Defaults[o]
  BY <1>1, <1>4 DEF ConfigInv, LatestIsTaken, LastValidWins
<1>8. config[o] = IF Taken(o) # {} THEN Held(o, settings[Max(Taken(o))].argument)
                  ELSE IF Supplied(o, environment) # <<>> THEN Supplied(o, environment)[1]
                  ELSE Defaults[o]
  BY <1>1 DEF ConfigInv, LastValidWins
<1>9. CASE o = option /\ Takes(option, setting.argument)
  <2>1. config'[o] = Held(option, setting.argument)
    BY <1>3, <1>9 DEF AfterSetter
  <2>. QED BY <1>2, <1>6, <1>9, <2>1
<1>10. CASE o # option \/ ~Takes(option, setting.argument)
  <2>1. config'[o] = config[o]
    BY <1>3, <1>10 DEF AfterSetter
  <2>2. Taken(o)' = Taken(o)
    BY <1>5, <1>10
  <2>3. Taken(o) # {} => settings'[Max(Taken(o))] = settings[Max(Taken(o))]
    BY <1>2, <1>7 DEF ConfigInv, LatestIsTaken, Taken
  <2>4. Taken(o) # {} => Max(Taken(o)) \in Taken(o)
    BY DEF ConfigInv, LatestIsTaken
  <2>. QED BY <1>8, <2>1, <2>2, <2>3, <2>4
<1>. QED BY <1>9, <1>10

\* Making a channel changes no option.
LEMMA OthersKeep ==
    ASSUME ConfigInv, UNCHANGED <<config, environment, settings>>
    PROVE  ConfigInv'
<1>1. Shaped'
  BY DEF ConfigInv, Shaped
<1>2. \A option \in Options : Taken(option)' = Taken(option)
  BY DEF Taken
<1>3. LatestIsTaken' /\ LastValidWins'
  BY <1>2 DEF ConfigInv, LatestIsTaken, LastValidWins
<1>. QED BY <1>1, <1>3 DEF ConfigInv

LEMMA ConfigInvAlways == ConfigSpec => []ConfigInv
<1>1. ConfigInv /\ [ConfigNext]_configVars => ConfigInv'
  <2> SUFFICES ASSUME ConfigInv, [ConfigNext]_configVars PROVE ConfigInv'
    OBVIOUS
  <2>1. CASE \E env \in Environments : Construct(env)
    BY <2>1, ConstructKeeps
  <2>2. CASE \E setting \in Settings : SetOption(setting)
    BY <2>2, SetOptionKeeps
  <2>3. CASE \E readable \in SUBSET Files : Connect(readable)
    BY <2>3, OthersKeep DEF Connect
  <2>4. CASE UNCHANGED configVars
    BY <2>4, OthersKeep DEF configVars
  <2>. QED BY <2>1, <2>2, <2>3, <2>4 DEF ConfigNext
<1>. QED BY StartsValid, <1>1, PTL DEF ConfigSpec

\* Whatever the environment and whatever setters are called, every option holds
\* the last valid value it was given.
THEOREM OptionsHoldLastValid == ConfigSpec => []LastValidWins
<1>1. ConfigInv => LastValidWins
  BY DEF ConfigInv
<1>. QED BY <1>1, ConfigInvAlways, PTL

-----------------------------------------------------------------------------
(* Fatal status codes                                                        *)

\* What is collected from a list of numbers are codes that gRPC has.
LEMMA ValidCodesAreCodes ==
    ASSUME NEW codes \in Seq(Int)
    PROVE  ValidCodes(codes) \in Seq(StatusCodes)
<1> DEFINE n == Len(codes)
           Values == Seq(StatusCodes)
           step == [p \in Values \X (0 .. n) |->
                       IF p[2] = 0 THEN p[1]
                       ELSE IF IsValidStatusCode(codes[p[2]]) THEN Append(p[1], codes[p[2]])
                       ELSE p[1]]
           Next(f, i) == IF i = 0 THEN <<>>
                         ELSE IF IsValidStatusCode(codes[i]) THEN Append(f[i - 1], codes[i])
                         ELSE f[i - 1]
           Collects(f) == f = [i \in 0 .. n |-> Next(f, i)]
           valid == CHOOSE f : Collects(f)
<1>1. n \in Nat
  OBVIOUS
<1>2. /\ step \in [Values \X (0 .. n) -> Values]
      /\ \A v \in Values, i \in 1 .. n :
            step[<<v, i>>] = IF IsValidStatusCode(codes[i]) THEN Append(v, codes[i]) ELSE v
  BY DEF IsValidStatusCode
<1>3. PICK f \in [0 .. n -> Values] : Recurs(f, 0, n, <<>>, step)
  <2> HIDE DEF step, n
  <2>1. <<>> \in Values /\ 0 \in Nat /\ 0 <= n
    BY <1>1
  <2> HIDE DEF Values
  <2>. QED BY <1>1, <1>2, <2>1, RecursionExists
<1>4. Collects(f)
  <2> HIDE DEF step, Values, n
  <2>1. ASSUME NEW i \in 0 .. n PROVE f[i] = Next(f, i)
    <3>1. CASE i = 0
      BY <1>3, <3>1 DEF Recurs
    <3>2. CASE i \in 1 .. n
      <4>1. i - 1 \in 0 .. n /\ i # 0
        BY <1>1, <3>2
      <4>2. f[i - 1] \in Values
        BY <1>3, <4>1
      <4>3. f[i] = step[<<f[i - 1], i>>]
        BY <1>3, <4>1, Zenon DEF Recurs
      <4>4. step[<<f[i - 1], i>>] =
                IF IsValidStatusCode(codes[i]) THEN Append(f[i - 1], codes[i]) ELSE f[i - 1]
        BY <1>2, <3>2, <4>2, Zenon
      <4>. QED BY <4>1, <4>3, <4>4
    <3>. QED BY <1>1, <3>1, <3>2
  <2> HIDE DEF Next
  <2>. QED BY <1>3, <2>1
<1>5. Collects(valid)
  <2> HIDE DEF Collects
  <2>. QED BY <1>4
<1>6. ValidCodes(codes) = valid[n]
  BY DEF ValidCodes
<1>7. \A i \in 0 .. n : valid[i] = Next(valid, i)
  <2> HIDE DEF Next, valid
  <2>. QED BY <1>5
<1>8. valid[n] \in Values
  <2> DEFINE S == {i \in 0 .. n : valid[i] \in Values}
  <2>1. <<>> \in Values /\ \A v \in Values : \A c \in StatusCodes : Append(v, c) \in Values
    OBVIOUS
  <2> HIDE DEF valid, n, Values
  <2>2. 0 \in S
    BY <1>1, <1>7, <2>1
  <2>3. ASSUME NEW i \in 0 .. n, i # 0, i - 1 \in S PROVE i \in S
    <3>1. valid[i] = Next(valid, i) /\ i # 0 /\ valid[i - 1] \in Values /\ i \in 0 .. n
      BY <1>1, <1>7, <2>3
    <3>. QED BY <2>1, <3>1 DEF IsValidStatusCode
  <2>4. \A i \in 0 .. n : i \in S
    <3> HIDE DEF S
    <3>. QED BY <1>1, <2>2, <2>3, StepByStep
  <2>. QED BY <1>1, <2>4
<1> HIDE DEF valid
<1>. QED BY <1>6, <1>8

\* What a text stands for is a number, and a text of a number for that one.
LEMMA TextsAreCodes ==
    /\ \A item \in Tokens : CodeOf(item) \in Int
    /\ \A code \in IntValues : CodeOf([Empty EXCEPT !.number = code]) = code
<1>1. IntValues \subseteq Int
  BY ConfigAssumption DEF IntValues
<1>2. \A name \in DOMAIN kStatusCodeMap : kStatusCodeMap[name] \in Int
  BY DEF kStatusCodeMap
<1>. QED BY <1>1, <1>2 DEF CodeOf, NoCode, IsStoi, Empty, Tokens

LEMMA ParsedCodesAreCodes ==
    ASSUME NEW items \in Seq(Tokens)
    PROVE  ParseFatalStatusCodes(items) \in Seq(StatusCodes)
<1>1. [i \in DOMAIN items |-> CodeOf(items[i])] \in Seq(Int)
  BY TextsAreCodes
<1>. QED BY <1>1, ValidCodesAreCodes DEF ParseFatalStatusCodes

\* A list of numbers means what the text of it means.
LEMMA NumbersReadAsText ==
    ASSUME NEW codes \in Seq(IntValues)
    PROVE  ParseFatalStatusCodes([j \in DOMAIN codes |-> [Empty EXCEPT !.number = codes[j]]])
               = ValidCodes(codes)
<1> DEFINE items == [j \in DOMAIN codes |-> [Empty EXCEPT !.number = codes[j]]]
<1>1. \A j \in DOMAIN codes : CodeOf(items[j]) = codes[j]
  BY TextsAreCodes
<1>2. DOMAIN items = DOMAIN codes
  OBVIOUS
<1> HIDE DEF items
<1>3. [j \in DOMAIN items |-> CodeOf(items[j])] = codes
  BY <1>1, <1>2
<1>4. ParseFatalStatusCodes(items) = ValidCodes(codes)
  BY <1>3 DEF ParseFatalStatusCodes
<1>. QED BY <1>4 DEF items

\* What a setter holds of fatal status codes are codes.
LEMMA HeldCodesAreCodes ==
    ASSUME NEW value \in [items : Seq(Tokens)] \cup [codes : Seq(IntValues)]
    PROVE  Held("fatal_status_codes", value) \in Seq(StatusCodes)
<1>1. CASE value \in [items : Seq(Tokens)]
  BY <1>1, ParsedCodesAreCodes DEF Held
<1>2. CASE value \in [codes : Seq(IntValues)]
  <2>1. DOMAIN value = {"codes"} /\ value.codes \in Seq(IntValues)
    BY <1>2
  <2>2. IntValues \subseteq Int
    BY ConfigAssumption DEF IntValues
  <2> DEFINE codes == value.codes
  <2>3. codes \in Seq(Int)
    <3> HIDE DEF codes
    <3>1. /\ Len(codes) \in Nat /\ codes = [i \in 1 .. Len(codes) |-> codes[i]]
          /\ \A i \in 1 .. Len(codes) : codes[i] \in IntValues
      BY <2>1 DEF codes
    <3>2. codes \in [1 .. Len(codes) -> Int]
      BY <2>2, <3>1
    <3>. QED BY <3>1, <3>2
  <2>. QED BY <2>1, <2>3, ValidCodesAreCodes DEF Held
<1>. QED BY <1>1, <1>2

\* However fatal status codes are given, in the environment or to a setter, as
\* texts or as numbers: those that are kept are codes of gRPC, and the two forms
\* mean the same.
THEOREM FatalCodesAreKept == ConfigSpec => []FatalCodesAreCodes
<1>1. ConfigInv => FatalCodesAreCodes
  <2> DEFINE option == "fatal_status_codes"
  <2>1. SUFFICES ASSUME ConfigInv, config # Nothing PROVE FatalCodesAreCodes
    BY DEF FatalCodesAreCodes
  <2>2. option \in Options
    BY DEF Options
  <2>3. /\ settings \in Seq(Settings) /\ environment \in Environments
        /\ Taken(option) # {} => Max(Taken(option)) \in DOMAIN settings
                                 /\ settings[Max(Taken(option))].option = option
        /\ config[option] =
              IF Taken(option) # {} THEN Held(option, settings[Max(Taken(option))].argument)
              ELSE IF Supplied(option, environment) # <<>> THEN Supplied(option, environment)[1]
              ELSE Defaults[option]
    BY <2>1, <2>2 DEF ConfigInv, Shaped, LatestIsTaken, LastValidWins, Taken
  <2>4. \A i \in DOMAIN settings : settings[i] \in Settings
    BY <2>3
  <2>5. config[option] \in Seq(StatusCodes)
    <3>1. CASE Taken(option) # {}
      BY <2>3, <2>4, <3>1, HeldCodesAreCodes, SettingAssumption
    <3>2. CASE Taken(option) = {}
      <4>1. Supplied(option, environment) =
                IF environment[option] = Unset THEN <<>>
                ELSE <<ParseFatalStatusCodes(environment[option])>>
        <5>1. option \notin Numerals /\ option \notin Names
          BY DEF Numerals, Durations, Allowances, Names
        <5>. QED BY <5>1 DEF Supplied
      <4>2. Defaults[option] = <<>>
        BY DEF Defaults
      <4>3. environment[option] = Unset \/ environment[option] \in Seq(Tokens)
        BY <2>3, SettingAssumption
      <4>4. CASE environment[option] = Unset
        BY <2>3, <3>2, <4>1, <4>2, <4>4
      <4>5. CASE environment[option] # Unset
        <5> DEFINE parsed == ParseFatalStatusCodes(environment[option])
        <5>1. parsed \in Seq(StatusCodes)
          BY <4>3, <4>5, ParsedCodesAreCodes
        <5>2. Supplied(option, environment) = <<parsed>>
          BY <4>1, <4>5
        <5> HIDE DEF parsed
        <5>3. Supplied(option, environment) # <<>> /\ Supplied(option, environment)[1] = parsed
          BY <5>2
        <5>4. config[option] = parsed
          BY <2>3, <3>2, <5>3, Zenon
        <5>. QED BY <5>1, <5>4
      <4>. QED BY <4>4, <4>5
    <3>. QED BY <3>1, <3>2
  <2>6. ASSUME NEW i \in DOMAIN settings, settings[i].option = option,
               "codes" \in DOMAIN settings[i].argument
        PROVE  LET codes == settings[i].argument.codes
                   items == [j \in DOMAIN codes |-> [Empty EXCEPT !.number = codes[j]]]
               IN  Held(option, settings[i].argument) = ParseFatalStatusCodes(items)
    <3> DEFINE value == settings[i].argument
    <3>1. value \in [items : Seq(Tokens)] \cup [codes : Seq(IntValues)]
      BY <2>4, <2>6, SettingAssumption
    <3> HIDE DEF value
    <3>2. "codes" \in DOMAIN value
      BY <2>6 DEF value
    <3>3. "items" \notin DOMAIN value /\ value.codes \in Seq(IntValues)
      BY <3>1, <3>2
    <3> USE DEF value
    <3>. QED BY <3>3, NumbersReadAsText DEF Held
  <2>. QED BY <2>5, <2>6 DEF FatalCodesAreCodes
<1>. QED BY <1>1, ConfigInvAlways, PTL

-----------------------------------------------------------------------------
(* Connections                                                               *)

\* A setter that takes every value takes the last one it is called with.
LEMMA EveryCallIsTaken ==
    ASSUME NEW option \in Names \cup {"tls", "channel_credentials"}
    PROVE  Taken(option) = CallsOf(option)
<1>1. option \notin {"port"} \cup Durations \cup Allowances
  BY DEF Names, Durations, Allowances
<1>. QED BY <1>1 DEF Taken, CallsOf, Takes

\* An option that is a text has the last text given for it, if that is one.
LEMMA NamesHoldLastText ==
    ASSUME ConfigInv, config # Nothing, NEW option \in Names
    PROVE  /\ HasText(config[option]) <=> HasText(LastText(option))
           /\ HasText(LastText(option)) => config[option] = LastText(option)
<1>1. /\ option \in Options /\ option \notin Numerals
      /\ option \notin {"tls", "host", "channel_credentials", "fatal_status_codes"}
  BY DEF Options, Numerals, Durations, Allowances, Names
<1>2. Taken(option) = CallsOf(option)
  BY EveryCallIsTaken
<1>3. config[option] =
          IF CallsOf(option) # {} THEN settings[Max(CallsOf(option))].argument
          ELSE IF Supplied(option, environment) # <<>> THEN Supplied(option, environment)[1]
          ELSE Unset
  BY <1>1, <1>2, DefaultValues DEF ConfigInv, LastValidWins, Held
<1>4. Supplied(option, environment) =
          IF environment[option] \in {Unset, Empty} THEN <<>> ELSE <<environment[option]>>
  BY <1>1 DEF Supplied
<1>5. CASE CallsOf(option) # {}
  BY <1>3, <1>5 DEF LastText
<1>6. CASE CallsOf(option) = {}
  BY <1>3, <1>4, <1>6 DEF LastText, HasText
<1>. QED BY <1>5, <1>6

\* Explicit credentials are those of the last call of their setter.
LEMMA CredentialsAreOfLastCall ==
    ASSUME ConfigInv, config # Nothing
    PROVE  config.channel_credentials # Unset <=>
               CallsOf("channel_credentials") # {} /\ LastText("channel_credentials") # Unset
<1> DEFINE option == "channel_credentials"
<1>1. option \in Options /\ option # "fatal_status_codes"
  BY DEF Options
<1>2. Taken(option) = CallsOf(option)
  BY EveryCallIsTaken
<1>3. Supplied(option, environment) = <<>>
  BY DEF Supplied
<1>4. config[option] = IF CallsOf(option) # {} THEN settings[Max(CallsOf(option))].argument
                       ELSE Unset
  BY <1>1, <1>2, <1>3, DefaultValues DEF ConfigInv, LastValidWins, Held
<1>. QED BY <1>4 DEF LastText

\* TLS is asked for or not by the last call of its setter, else by the environment.
Secured == IF CallsOf("tls") # {} THEN LastText("tls") = TRUE
           ELSE GetEnvBool(environment["tls"], FALSE)

LEMMA TlsIsOfLastCall ==
    ASSUME ConfigInv, config # Nothing
    PROVE  config.tls = Secured
<1> DEFINE option == "tls"
           last == settings[Max(CallsOf(option))]
<1>1. option \in Options /\ option # "fatal_status_codes" /\ option \notin Numerals \cup Names
  BY DEF Options, Numerals, Durations, Allowances, Names
<1>2. Taken(option) = CallsOf(option)
  BY EveryCallIsTaken
<1>3. Supplied(option, environment) =
          IF environment[option] = Unset THEN <<>> ELSE <<GetEnvBool(environment[option], FALSE)>>
  BY <1>1 DEF Supplied
<1>4. config[option] =
          IF CallsOf(option) # {} THEN last.argument
          ELSE IF Supplied(option, environment) # <<>> THEN Supplied(option, environment)[1]
          ELSE FALSE
  BY <1>1, <1>2, DefaultValues DEF ConfigInv, LastValidWins, Held
<1>5. CASE CallsOf(option) # {}
  <2>1. Max(CallsOf(option)) \in CallsOf(option)
    BY <1>1, <1>2, <1>5 DEF ConfigInv, LatestIsTaken
  <2>2. last \in Settings /\ last.option = option
    BY <2>1 DEF ConfigInv, Shaped, CallsOf
  <2>3. last.argument \in BOOLEAN
    BY <2>2, SettingAssumption
  <2>4. config.tls = last.argument /\ LastText(option) = last.argument
    BY <1>4, <1>5 DEF LastText
  <2> HIDE DEF last
  <2>. QED BY <1>5, <2>3, <2>4 DEF Secured
<1>6. CASE CallsOf(option) = {}
  <2>1. CASE environment[option] = Unset
    BY <1>3, <1>4, <1>6, <2>1 DEF Secured, GetEnvBool
  <2>2. CASE environment[option] # Unset
    <3> DEFINE asked == GetEnvBool(environment[option], FALSE)
    <3>1. Supplied(option, environment) = <<asked>>
      BY <1>3, <2>2
    <3>2. Secured = asked
      BY <1>6 DEF Secured
    <3> HIDE DEF asked
    <3>3. Supplied(option, environment) # <<>> /\ Supplied(option, environment)[1] = asked
      BY <3>1
    <3>4. config[option] = asked
      BY <1>4, <1>6, <3>3, Zenon
    <3>. QED BY <3>2, <3>4, Zenon
  <2>. QED BY <2>1, <2>2
<1>. QED BY <1>5, <1>6

\* A channel is made of a configuration, and as the priorities have it.
ChannelInv ==
    /\ ConfigInv
    /\ channel # Nothing => config # Nothing
    /\ ConnectionFollowsPriority

LEMMA ConnectKeeps ==
    ASSUME ChannelInv, NEW readable, Connect(readable)
    PROVE  ConnectionFollowsPriority'
<1> DEFINE credentials == GetEffectiveCredentials(readable)
           Says(option) == HasText(LastText(option))
           isExplicit == /\ CallsOf("channel_credentials") # {}
                         /\ LastText("channel_credentials") # Unset
<1>1. /\ ConfigInv /\ config # Nothing /\ UNCHANGED <<config, environment, settings>>
      /\ channel' = IF credentials = InternalError THEN [kind |-> "failed"]
                    ELSE Channel(credentials)
  BY DEF ChannelInv, Connect
<1>2. \A option : CallsOf(option)' = CallsOf(option) /\ LastText(option)' = LastText(option)
  BY <1>1 DEF CallsOf, LastText
<1>3. \A option \in {"target_uri", "socket_path", "cert_path"} :
          /\ HasText(config[option]) <=> Says(option)
          /\ Says(option) => config[option] = LastText(option)
  BY <1>1, NamesHoldLastText DEF Names
<1>4. (config.channel_credentials # Unset <=> isExplicit) /\ config.tls = Secured
  BY <1>1, CredentialsAreOfLastCall, TlsIsOfLastCall
<1> DEFINE AsAsked(option) == IF Says(option) THEN LastText(option) ELSE Empty
<1>5. /\ credentials = InternalError => ~isExplicit /\ Secured /\ Says("cert_path")
      /\ credentials # InternalError =>
            /\ credentials[1] =
                  (IF isExplicit THEN "explicit" ELSE IF Secured THEN "ssl" ELSE "insecure")
            /\ credentials[1] = "ssl" => credentials[2] = AsAsked("cert_path")
  <2> HIDE DEF isExplicit
  <2>1. CASE isExplicit
    BY <1>4, <2>1 DEF GetEffectiveCredentials, InternalError
  <2>2. CASE ~isExplicit /\ ~Secured
    BY <1>4, <2>2 DEF GetEffectiveCredentials, InternalError
  <2>3. CASE ~isExplicit /\ Secured
    BY <1>3, <1>4, <2>3 DEF GetEffectiveCredentials, InternalError, DefaultRoots
  <2>. QED BY <2>1, <2>2, <2>3
<1>6. /\ GetEffectiveTargetUri[1] =
            (IF Says("target_uri") THEN "uri"
             ELSE IF Says("socket_path") THEN "unix" ELSE "host")
      /\ GetEffectiveTargetUri[1] = "uri" => GetEffectiveTargetUri[2] = LastText("target_uri")
      /\ GetEffectiveTargetUri[1] = "unix" => GetEffectiveTargetUri[2] = LastText("socket_path")
  BY <1>3 DEF GetEffectiveTargetUri
<1>7. /\ Channel(credentials).kind = "channel"
      /\ Channel(credentials).credentials = credentials
      /\ Channel(credentials).target = GetEffectiveTargetUri
  BY DEF Channel
<1>8. Secured = IF CallsOf("tls")' # {} THEN LastText("tls")' = TRUE
                ELSE GetEnvBool(environment["tls"]', FALSE)
  BY <1>1, <1>2 DEF Secured
<1> HIDE DEF credentials
<1>. QED BY <1>1, <1>2, <1>5, <1>6, <1>7, <1>8 DEF ConnectionFollowsPriority

\* Whatever was set in whatever order, the target and the credentials of every
\* channel are those that the documented priorities give of what was last said,
\* and a certificate that cannot be read makes no channel.
THEOREM PriorityIsFollowed == ConfigSpec => []ConnectionFollowsPriority
<1>1. ConfigInit => ChannelInv
  BY StartsValid DEF ConfigInit, ChannelInv, ConnectionFollowsPriority
<1>2. ChannelInv /\ [ConfigNext]_configVars => ChannelInv'
  <2> SUFFICES ASSUME ChannelInv, [ConfigNext]_configVars PROVE ChannelInv'
    OBVIOUS
  <2> USE DEF ChannelInv
  <2>1. ASSUME NEW env \in Environments, Construct(env) PROVE ChannelInv'
    BY <2>1, ConstructKeeps DEF Construct, ConnectionFollowsPriority
  <2>2. ASSUME NEW setting \in Settings, SetOption(setting) PROVE ChannelInv'
    BY <2>2, SetOptionKeeps DEF SetOption, ConnectionFollowsPriority
  <2>3. ASSUME NEW readable \in SUBSET Files, Connect(readable) PROVE ChannelInv'
    BY <2>3, OthersKeep, ConnectKeeps DEF Connect
  <2>4. CASE UNCHANGED configVars
    BY <2>4, OthersKeep
       DEF configVars, ConnectionFollowsPriority, CallsOf, LastText
  <2>. QED BY <2>1, <2>2, <2>3, <2>4 DEF ConfigNext
<1>. QED BY <1>1, <1>2, PTL DEF ConfigSpec, ChannelInv
=============================================================================
