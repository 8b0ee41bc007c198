\* One and two fields, and a payload posted to each definition that is accepted.
CONSTANTS
    Definitions <- MCDefinitions
    Payloads <- MCPayloads
    Texts <- MCTexts
    Values <- MCValues
    ContentTypes <- MCContentTypes
    ObjectKeys = {"a", "b", "c", "_gotcha", "B"}
    ValidKeys = {"a", "b", "c"}
    ReservedKeys = {"_gotcha"}
    HONEYPOT_FIELD = "_gotcha"
    None = None
    MAX_FIELDS = 2
    MAX_OPTIONS = 2
    MAX_LABEL_LENGTH = 4
    MAX_TEXT_LENGTH = 4
    BODY_LIMIT = 7
    ValueBytes <- MCValueBytes
    BodyBytes <- MCBodyBytes
SPECIFICATION ValidationSpec
\* A definition may be refused, and one payload is posted to it.
CHECK_DEADLOCK FALSE
INVARIANTS
    
    StoredAnswersRevalidate
    HelpersChangeNothing
