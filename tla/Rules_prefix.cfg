\* A version with an upper-case prefix as a minimum.
CONSTANTS
    MaxNumber = 11
    HashCount = 32
    WeightLimit = 8
    Null = Null
    NotAText = NotAText
    Failed = Failed
    NotAnArray = NotAnArray
    NoKey = NoKey
    NotAString = NotAString
    EmptyText = EmptyText
    BinaryVersions <- MCBinaryVersions
    MetadataValues <- MCMetadataValues
    StringCalls <- MCStringCalls
    VersionCalls <- MCVersionCalls
    FractionalCalls <- MCFractionalCalls
    Apply <- MCApply
    JsonEqual <- MCJsonEqual
    Rules <- MCRuleSet
    Substitutes <- LogicOperands
    Contexts <- MCContexts
    KeyOrder <- MCKeyOrder
    SignBit = 8
    Resolution = 4
    DoubleValues <- MCDoubles
    Rounded <- MCRounded
    Operands <- MCOperands
    Overflowed = 0
    IntSignBit = 4
    MaxInt = 9999999
    Unset = Unset
    NoNumber = NoNumber
    Environments <- MCEnvironments
    Settings <- MCSettings
    MaxSettings = 2
    Files <- MCFiles
    JsonToValue <- MCJsonToValue
    ValueToJson <- MCValueToJson
    EncodeJson <- MCEncodeJson
    Meaning <- MCMeaning
    FitsThroughout <- MCFitsThroughout
    Nesting <- MCNesting
    EvaluationContexts <- MCEvaluationContexts
    NoTargetingKey = NoTargetingKey
    FlagKeys <- MCFlagKeys
    Variants <- MCVariants
    Times = {0, 1}
SPECIFICATION RulesSpec
INVARIANTS
    AcceptsEitherPrefix
