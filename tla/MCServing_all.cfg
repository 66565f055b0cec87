SPECIFICATION Spec
CONSTANTS
    None = None
    c1 = c1  c2 = c2
    Callers <- TwoCallers
    RuntimeTables <- OneRuntimeTable
    Preview = 2
    Statement <- Statements
    MaxFaults = 1
    Datasets <- OneDataset
    Replies <- RepliesOf
    Scripts <- ScriptsOf
    MaxLevels = 2
    Channel = 1
    Cases <- AllCases
    Searches <- SomeSearches
    Documents <- SearchDocuments
    Embedders <- OneEmbedder
    Alphabetical <- ColumnOrder
CHECK_DEADLOCK FALSE
INVARIANTS
    AnswersAreRecorded
    
    ModelSeesTheConversation
    
    
PROPERTIES
    EveryRequestEnds
