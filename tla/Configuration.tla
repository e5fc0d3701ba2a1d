----------------------------- MODULE Configuration -----------------------------
(***************************************************************************)
(* FlagdProviderConfig (providers/flagd/src/configuration.cpp): defaults,  *)
(* environment, setters, and what GrpcSync makes of them when it connects  *)
(* (sync/grpc/grpc_sync.cpp).                                              *)
(*                                                                         *)
(* A text is told apart as far as the code reads it: [number, word] is     *)
(* what std::stoi takes off its front, or NoNumber, and what follows; a    *)
(* list of status codes is the sequence of the texts between its commas,   *)
(* without the white space around them.  Numbers have no leading zeros.    *)
(* A variable that is not in the environment and an optional option that   *)
(* has no value are Unset.                                                 *)
(***************************************************************************)
EXTENDS Integers, SequencesExt

CONSTANTS
    MaxInt,          \* the largest int
    Unset, NoNumber,
    Environments,    \* the environments a configuration is made in, and
    Settings,        \* the calls of setters, [option, argument]
    MaxSettings,     \* of which there are at most so many
    Files            \* the certificate files that can be opened at times

IntValues == -MaxInt - 1 .. MaxInt

ASSUME ConfigAssumption == MaxInt \in Nat /\ NoNumber \notin Int

VARIABLES
    config,        \* the values of the options, or Nothing
    environment,   \* history: the environment it was made in, and
    settings,      \* the setters that were called since
    channel        \* the channel GrpcSync made last, what its making failed
                   \* with, or Nothing
configVars == <<config, environment, settings, channel>>

Nothing == [kind |-> "nothing"]

Durations == {"deadline_ms", "stream_deadline_ms", "retry_backoff_ms",
              "retry_backoff_max_ms", "offline_poll_interval_ms"}
Allowances == {"retry_grace_period", "keep_alive_time_ms"}
Numerals == {"port"} \cup Durations \cup Allowances
Names == {"target_uri", "socket_path", "cert_path", "selector", "provider_id",
          "offline_flag_source_path"}
Options == Numerals \cup Names \cup {"host", "tls", "channel_credentials", "fatal_status_codes"}

Tokens == [number : Int \cup {NoNumber}, word : STRING]

\* tls is set to a bool; fatal status codes are a list of texts or one of ints.
ASSUME SettingAssumption ==
    /\ \A setting \in Settings :
          /\ setting.option \in Options
          /\ setting.option = "tls" => setting.argument \in BOOLEAN
          /\ setting.option = "fatal_status_codes" =>
                setting.argument \in [items : Seq(Tokens)] \cup [codes : Seq(IntValues)]
    /\ \A env \in Environments :
          env.fatal_status_codes = Unset \/ env.fatal_status_codes \in Seq(Tokens)

Empty == [number |-> NoNumber, word |-> ""]
Spelled(word) == [Empty EXCEPT !.word = word]

Defaults ==
    [host |-> Spelled("localhost"), port |-> 8015, tls |-> FALSE,
     deadline_ms |-> 500, stream_deadline_ms |-> 600000,
     retry_backoff_ms |-> 1000, retry_backoff_max_ms |-> 12000, retry_grace_period |-> 5,
     keep_alive_time_ms |-> 0, offline_poll_interval_ms |-> 5000,
     target_uri |-> Unset, socket_path |-> Unset, cert_path |-> Unset, selector |-> Unset,
     provider_id |-> Unset, offline_flag_source_path |-> Unset,
     channel_credentials |-> Unset, fatal_status_codes |-> <<>>]

-----------------------------------------------------------------------------
(* Reading texts                                                           *)

\* std::stoi throws on a text without a number and on one that is no int.
IsStoi(text) == text.number \in IntValues

GetEnvAtoi(text, default) ==
    IF text = Unset THEN default ELSE IF IsStoi(text) THEN text.number ELSE 0
GetEnvInt(text, default) ==
    IF text # Unset /\ IsStoi(text) THEN text.number ELSE default

Lowered(word) == IF word \in {"TRUE", "True", "true"} THEN "true" ELSE word
GetEnvBool(text, default) ==
    IF text = Unset THEN default
    ELSE \/ text.number = NoNumber /\ Lowered(text.word) = "true"
         \/ text.number = 1 /\ text.word = ""

StatusCodes == 0 .. 16
kStatusCodeMap ==
    [OK |-> 0, CANCELLED |-> 1, UNKNOWN |-> 2, INVALID_ARGUMENT |-> 3, DEADLINE_EXCEEDED |-> 4,
     NOT_FOUND |-> 5, ALREADY_EXISTS |-> 6, PERMISSION_DENIED |-> 7, RESOURCE_EXHAUSTED |-> 8,
     FAILED_PRECONDITION |-> 9, ABORTED |-> 10, OUT_OF_RANGE |-> 11, UNIMPLEMENTED |-> 12,
     INTERNAL |-> 13, UNAVAILABLE |-> 14, DATA_LOSS |-> 15, UNAUTHENTICATED |-> 16]

IsValidStatusCode(code) == code \in StatusCodes
NoCode == -1
CodeOf(item) ==
    IF IsStoi(item) THEN item.number
    ELSE IF item.number = NoNumber /\ item.word \in DOMAIN kStatusCodeMap
    THEN kStatusCodeMap[item.word]
    ELSE NoCode

\* The codes of a list that gRPC has, collected one after the other.
ValidCodes(codes) ==
    LET valid[i \in 0 .. Len(codes)] ==
            IF i = 0 THEN <<>>
            ELSE IF IsValidStatusCode(codes[i]) THEN Append(valid[i - 1], codes[i])
            ELSE valid[i - 1]
    IN  valid[Len(codes)]

\* The loop skips an empty text as it does one that it cannot read.
ParseFatalStatusCodes(items) == ValidCodes([i \in DOMAIN items |-> CodeOf(items[i])])

-----------------------------------------------------------------------------
(* Setters                                                                 *)

IsValidPort(port) == port \in 1 .. 65535

\* Which values a setter takes; it ignores the others.
Takes(option, value) ==
    /\ option = "port" => IsValidPort(value)
    /\ option \in Durations => value > 0
    /\ option \in Allowances => value >= 0

\* What an option holds after its setter took a value.  The values of
\* fatal_status_codes are lists of codes, [codes], or of texts, [items].
HeldUnchecked(option, value) ==
    IF option # "fatal_status_codes" THEN value
    ELSE IF "items" \in DOMAIN value THEN ParseFatalStatusCodes(value.items)
    ELSE value.codes

Held(option, value) ==
    IF option # "fatal_status_codes" THEN value
    ELSE IF "items" \in DOMAIN value THEN ParseFatalStatusCodes(value.items)
    ELSE ValidCodes(value.codes)

\* An option that held old after its setter was called with a value.
AfterSetter(option, old, value) == IF Takes(option, value) THEN Held(option, value) ELSE old

\* The constructor calls a setter with what it finds in the environment, or with
\* the default; it does not call those of optional options with nothing.
FromEnvironment(option, env) ==
    LET text == env[option]
        Default == Defaults[option]
    IN  CASE option \in Numerals -> AfterSetter(option, Default, GetEnvInt(text, Default))
          [] option = "tls" -> GetEnvBool(text, Default)
          [] option = "host" -> IF text = Unset THEN Default ELSE text
          [] option \in Names -> IF text \in {Unset, Empty} THEN Unset ELSE text
          [] option = "fatal_status_codes" ->
                IF text = Unset THEN <<>> ELSE Held(option, [items |-> text])
          [] option = "channel_credentials" -> Unset

-----------------------------------------------------------------------------
(* What the options mean for a connection                                  *)

HasText(value) == value \notin {Unset, Empty}

GetEffectiveTargetUri ==
    IF HasText(config.target_uri) THEN <<"uri", config.target_uri>>
    ELSE IF HasText(config.socket_path) THEN <<"unix", config.socket_path>>
    ELSE <<"host", config.host, config.port>>

DefaultRoots == <<"ssl", Empty>>
InternalError == <<"error">>
\* readable: the certificate files that can be opened now.
FallingBack(readable) ==
    IF config.channel_credentials # Unset THEN <<"explicit", config.channel_credentials>>
    ELSE IF ~config.tls THEN <<"insecure">>
    ELSE IF config.cert_path \in readable THEN <<"ssl", config.cert_path>>
    ELSE DefaultRoots

GetEffectiveCredentials(readable) ==
    IF config.channel_credentials # Unset THEN <<"explicit", config.channel_credentials>>
    ELSE IF ~config.tls THEN <<"insecure">>
    ELSE IF ~HasText(config.cert_path) THEN DefaultRoots
    ELSE IF config.cert_path \in readable THEN <<"ssl", config.cert_path>>
    ELSE InternalError

\* Durations in the service configuration are texts of six digits.
SixDigits(ms) ==
    LET unit == Min({u \in {1, 10, 100, 1000, 10000} : ms \div u < 1000000})
    IN  ((ms + unit \div 2) \div unit) * unit

\* What an option that is only heard if it is positive comes to.
IfPositive(n) == IF n > 0 THEN n ELSE Unset

\* GrpcSync::CreateStub, and what the streams over the channel carry.
Channel(credentials) ==
    [kind |-> "channel",
     target |-> GetEffectiveTargetUri,
     credentials |-> credentials,
     retryPolicy |-> <<SixDigits(config.retry_backoff_ms), SixDigits(config.retry_backoff_max_ms)>>,
     keepAlive |-> IfPositive(config.keep_alive_time_ms),
     reconnect |-> <<IfPositive(config.retry_backoff_ms), IfPositive(config.retry_backoff_max_ms)>>,
     selector |-> IF HasText(config.selector) THEN config.selector ELSE Unset,
     providerId |-> IF HasText(config.provider_id) THEN config.provider_id ELSE Unset]

-----------------------------------------------------------------------------
ConfigInit ==
    config = Nothing /\ environment = Nothing /\ settings = <<>> /\ channel = Nothing

Construct(env) ==
    /\ config = Nothing
    /\ config' = [option \in Options |-> FromEnvironment(option, env)]
    /\ environment' = env
    /\ UNCHANGED <<settings, channel>>

\* GrpcSync has a copy that nothing sets.
SetOption(setting) ==
    /\ config # Nothing /\ channel = Nothing
    /\ Len(settings) < MaxSettings
    /\ config' = [config EXCEPT ![setting.option] = AfterSetter(setting.option, @, setting.argument)]
    /\ settings' = Append(settings, setting)
    /\ UNCHANGED <<environment, channel>>

\* Every Init of GrpcSync makes a channel.
Connect(readable) ==
    /\ config # Nothing
    /\ LET credentials == GetEffectiveCredentials(readable) IN
       channel' = IF credentials = InternalError THEN [kind |-> "failed"] ELSE Channel(credentials)
    /\ UNCHANGED <<config, environment, settings>>

ConfigNext ==
    \/ \E env \in Environments : Construct(env)
    \/ \E setting \in Settings : SetOption(setting)
    \/ \E readable \in SUBSET Files : Connect(readable)

ConfigSpec == ConfigInit /\ [][ConfigNext]_configVars

-----------------------------------------------------------------------------
(* Properties                                                              *)

\* What an environment has to say of an option, in a sequence of none or one.
Supplied(option, env) ==
    LET text == env[option] IN
    IF text = Unset \/ option = "channel_credentials" THEN <<>>
    ELSE CASE option \in Numerals ->
                 IF IsStoi(text) /\ Takes(option, text.number) THEN <<text.number>> ELSE <<>>
           [] option = "tls" -> <<GetEnvBool(text, FALSE)>>
           [] option = "fatal_status_codes" -> <<ParseFatalStatusCodes(text)>>
           [] option = "host" -> <<text>>
           [] option \in Names -> IF text = Empty THEN <<>> ELSE <<text>>

Taken(option) == {i \in DOMAIN settings : /\ settings[i].option = option
                                          /\ Takes(option, settings[i].argument)}

\* Every option has the last value given to it that is valid: by a setter, else
\* by the environment, else by default.  Neither a text that cannot be read nor
\* a value out of range resets an option or turns up in it.
LastValidWins ==
    config # Nothing =>
        \A option \in Options :
            config[option] =
                IF Taken(option) # {} THEN Held(option, settings[Max(Taken(option))].argument)
                ELSE IF Supplied(option, environment) # <<>> THEN Supplied(option, environment)[1]
                ELSE Defaults[option]

\* Of fatal status codes, only those that gRPC has; a list of numbers means the
\* same as the text in which they stand.
FatalCodesAreCodes ==
    config # Nothing =>
        /\ \A i \in DOMAIN config.fatal_status_codes : config.fatal_status_codes[i] \in StatusCodes
        /\ \A i \in DOMAIN settings :
              settings[i].option = "fatal_status_codes" /\ "codes" \in DOMAIN settings[i].argument =>
                  LET codes == settings[i].argument.codes
                      items == [j \in DOMAIN codes |-> [Empty EXCEPT !.number = codes[j]]]
                  IN  Held("fatal_status_codes", settings[i].argument) = ParseFatalStatusCodes(items)

\* "Priority: Explicit TargetURI > SocketPath > Host:Port" and "Explicit
\* ChannelCredentials > TLS/CertPath > Insecure" (configuration.h), of what was
\* last given: a source that has nothing to say leaves it to the next one.  A
\* certificate that was asked for is used, or no channel is made: neither the
\* default roots nor an insecure channel stand in for it.
CallsOf(option) == {i \in DOMAIN settings : settings[i].option = option}
LastText(option) ==
    IF CallsOf(option) # {} THEN settings[Max(CallsOf(option))].argument ELSE environment[option]

ConnectionFollowsPriority ==
    channel # Nothing =>
        LET Says(option) == HasText(LastText(option))
            isExplicit == /\ CallsOf("channel_credentials") # {}
                          /\ LastText("channel_credentials") # Unset
            secured == IF CallsOf("tls") # {} THEN LastText("tls") = TRUE
                       ELSE GetEnvBool(environment["tls"], FALSE)
        IN  /\ channel.kind = "failed" => ~isExplicit /\ secured /\ Says("cert_path")
            /\ channel.kind = "channel" =>
                  /\ channel.credentials[1] =
                        (IF isExplicit THEN "explicit" ELSE IF secured THEN "ssl" ELSE "insecure")
                  /\ channel.credentials[1] = "ssl" =>
                        channel.credentials[2] =
                            (IF Says("cert_path") THEN LastText("cert_path") ELSE Empty)
                  /\ channel.target[1] =
                        (IF Says("target_uri") THEN "uri"
                         ELSE IF Says("socket_path") THEN "unix" ELSE "host")
                  /\ channel.target[1] = "uri" => channel.target[2] = LastText("target_uri")
                  /\ channel.target[1] = "unix" => channel.target[2] = LastText("socket_path")
=============================================================================
