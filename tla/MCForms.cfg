\* Two operations of the organization, of which one may be an export, race with
\* each other and with a submitter.
CONSTANTS
    plain = plain
    other = other
    file = file
    Schemas = {plain, other, file}
    FileSchemas = {file}
    Editors = {e1, e2}
    Submitters = {p1}
    Submissions = {1, 2}
    MaxVersion = 2
    MaxLinks = 2
    KeysOf <- MCKeysOf
    CreatedAt <- MCCreatedAt
    EXPORT_BATCH = 1
SPECIFICATION ExportSpec
SYMMETRY MCSymmetry
CHECK_DEADLOCK FALSE
INVARIANTS
    StampTellsSchema
    PublishedIsSubmittable
    ExportIsComplete
    ExportCarriesAnswers
