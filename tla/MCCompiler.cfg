SPECIFICATION MCSpec
CONSTANTS
    Words <- MCWords
    Lookahead = 16
    Names <- MCNames
    Capitalized <- MCCapitalized
    Registry <- MCRegistry
    Numerals <- MCNumerals
    Huge = Huge
    OutOfRange = Huge
    Stoi <- MCStoi
    Evaluable <- MCEvaluable
    NoNode = NoNode
    Programs <- MCPrograms
    Texts <- MCTexts
    Statements <- PlainStatements
CHECK_DEADLOCK FALSE
INVARIANTS
    TypeOK
    CallsGoBack
    IRInOrder
    CompiledMeansSource
    InvalidMakesNothing
    KernelsOfWholeSource
PROPERTIES
    ListenerSpec
    CompileEnds
